---- MODULE Spec2Model ----
(***************************************************************************)
(* Model of the NFLTeamsTable component (src/src/app/page.tsx and its      *)
(* typed twin src/unnamed/part_000): the React state of the component, the *)
(* directory loader fetchTeams, the schedule resolver fetchTeamSchedule    *)
(* and the two handlers handleTeamClick and closeModal.                    *)
(*                                                                         *)
(* Asynchronous calls are modelled at their await boundary: starting a     *)
(* fetch is part of the handler that starts it, and the continuation that  *)
(* runs when the fetch settles is one atomic action (JavaScript runs it to *)
(* completion on the event loop).                                          *)
(***************************************************************************)
EXTENDS Integers, Sequences, FiniteSets, TLC

VARIABLES
    teams,            \* useState<Team[]>([])
    loading,          \* useState(true)
    error,            \* useState<string | null>(null)
    selectedTeam,     \* useState<Team | null>(null)
    teamSchedule,     \* useState<TeamSchedule | null>(null)
    scheduleLoading,  \* useState(false)
    scheduleError,    \* useState<string | null>(null)
    teamsFetch,       \* position of the startup fetchTeams call
    inflight,         \* per team id: fetchTeamSchedule calls awaiting their response
    scheduleFrom,     \* history: id of the team whose fetch wrote teamSchedule
    lastResponse,     \* history: what the most recent settled schedule fetch consumed
    lastDirectory,    \* history: the response fetchTeams consumed
    shownScores       \* the score texts the modal's Recent Games column shows

vars == <<teams, loading, error, selectedTeam, teamSchedule, scheduleLoading,
          scheduleError, teamsFetch, inflight, scheduleFrom, lastResponse,
          lastDirectory, shownScores>>

(***************************************************************************)
(* Bounds of the model.                                                    *)
(***************************************************************************)
\* date strings are 0..MaxDate; the clock reads 0..MaxDate
MaxDate == 2
\* schedule fetches that may be awaiting their response at once
MaxInflight == 2

(***************************************************************************)
(* Values.                                                                 *)
(***************************************************************************)
\* JavaScript null (and an absent optional)
Null == [null |-> TRUE]

\* the time value of an Invalid Date
NaN == -1

\* slice(0, 3)
SliceEnd == 3

\* the resolver is checked on event lists of up to one event more than a
\* slice keeps
MaxEvents == SliceEnd + 1

TeamIds == {"1", "2"}

Team(id) == [id |-> id]

\* event.date as sent by the endpoint: 0 stands for a string Date cannot parse
DateStrings == 0 .. MaxDate

\* event.status?.type?.completed as sent by the endpoint
CompletedFlags == {"true", "false", "absent"}

\* values new Date() can read
ClockTimes == 0 .. MaxDate

\* new Date(dateString).getTime()
getTime(dateString) == IF dateString = 0 THEN NaN ELSE dateString

\* gameDate >= now in place of gameDate > now
DateGreaterOrEqual(gameTime, nowTime) ==
    /\ gameTime # NaN
    /\ nowTime # NaN
    /\ gameTime >= nowTime

\* gameDate > now: a relational comparison with NaN is false
DateGreater(gameTime, nowTime) ==
    /\ gameTime # NaN
    /\ nowTime # NaN
    /\ gameTime > nowTime

\* completed unless the flag says false: an absent flag counts as completed
CompletedUnlessFalse(event) == event.flag # "false"

\* event.status?.type?.completed || false
CompletedOf(event) == event.flag = "true"

\* event.competitions[0]?.competitors, the empty list standing for undefined
CompetitorsOf(event) ==
    IF event.competitions # <<>> /\ "competitors" \in DOMAIN event.competitions[1]
    THEN event.competitions[1].competitors
    ELSE <<>>

\* ...?.find((c) => c.homeAway === side): the first competitor tagged with the
\* side as a one-element list, the empty list standing for undefined
FindSide(event, side) ==
    LET competitors == CompetitorsOf(event)
        tagged == {i \in DOMAIN competitors : competitors[i].homeAway = side}
    IN  IF tagged = {} THEN <<>>
        ELSE <<competitors[CHOOSE i \in tagged : \A j \in tagged : i <= j]>>

\* found?.team?.[field] without the || fallback
TeamFieldNoFallback(found, field, fallback) ==
    IF found # <<>> /\ "team" \in DOMAIN found[1] THEN found[1].team[field] ELSE ""

\* found?.team?.[field] || fallback: an empty string is falsy
TeamField(found, field, fallback) ==
    IF found # <<>> /\ "team" \in DOMAIN found[1] /\ found[1].team[field] # ""
    THEN found[1].team[field]
    ELSE fallback

\* the side with score: found?.score || "0"
SideOfZeroScore(event, side) ==
    LET found == FindSide(event, side)
        team == [displayName |-> TeamField(found, "displayName", "TBD"),
                 abbreviation |-> TeamField(found, "abbreviation", "TBD"),
                 logo |-> TeamField(found, "logo", "")]
    IN  IF found # <<>> /\ "score" \in DOMAIN found[1]
        THEN [team |-> team, score |-> found[1].score]
        ELSE [team |-> team, score |-> "0"]

\* the homeTeam or awayTeam of the Game: the team snapshot, and the score
\* property where the competitor found has one
SideOf(event, side) ==
    LET found == FindSide(event, side)
        team == [displayName |-> TeamField(found, "displayName", "TBD"),
                 abbreviation |-> TeamField(found, "abbreviation", "TBD"),
                 logo |-> TeamField(found, "logo", "")]
    IN  IF found # <<>> /\ "score" \in DOMAIN found[1]
        THEN [team |-> team, score |-> found[1].score]
        ELSE [team |-> team]

\* the Game object built from one event
GameOf(event) ==
    [id |-> event.id, date |-> event.date, completed |-> CompletedOf(event),
     homeTeam |-> SideOf(event, "home"), awayTeam |-> SideOf(event, "away")]

\* the events of a list in order, as Games
GamesOf(events) == [i \in DOMAIN events |-> GameOf(events[i])]

\* the date tested before the completion flag
BucketDateFirst(game, now) ==
    IF DateGreater(getTime(game.date), now) THEN "upcoming"
    ELSE IF game.completed THEN "completed"
    ELSE "dropped"

\* if (game.completed) ... else if (gameDate > now) ...: the list the game is
\* pushed to, if any
Bucket(game, now) ==
    IF game.completed THEN "completed"
    ELSE IF DateGreater(getTime(game.date), now) THEN "upcoming"
    ELSE "dropped"

RECURSIVE SelectGames(_, _, _)
\* the forEach loop: the games pushed to completedGames (which = "completed")
\* or to upcomingGames (which = "upcoming"), in event order
SelectGames(games, now, which) ==
    IF games = <<>> THEN <<>>
    ELSE LET rest == SelectGames(Tail(games), now, which)
         IN  IF Bucket(Head(games), now) = which THEN <<Head(games)>> \o rest ELSE rest

\* (a, b) => new Date(b.date).getTime() - new Date(a.date).getTime(), as sort
\* reads it: a NaN result counts as +0
CompareRecent(a, b) ==
    IF getTime(a.date) = NaN \/ getTime(b.date) = NaN THEN 0
    ELSE getTime(b.date) - getTime(a.date)

\* (a, b) => new Date(a.date).getTime() - new Date(b.date).getTime()
CompareUpcoming(a, b) ==
    IF getTime(a.date) = NaN \/ getTime(b.date) = NaN THEN 0
    ELSE getTime(a.date) - getTime(b.date)

Compare(order, a, b) ==
    IF order = "recent" THEN CompareRecent(a, b) ELSE CompareUpcoming(a, b)

\* a consistent comparison function for the elements of the list (ECMAScript
\* Array.prototype.sort); only the transitivity of "equal" can fail here
ConsistentComparator(order, games) ==
    \A i, j, k \in DOMAIN games :
        (Compare(order, games[i], games[j]) = 0 /\ Compare(order, games[j], games[k]) = 0)
            => Compare(order, games[i], games[k]) = 0

RECURSIVE InsertSorted(_, _, _)
\* x placed after every element that does not sort after it
InsertSorted(order, x, sorted) ==
    IF sorted = <<>> THEN <<x>>
    ELSE IF Compare(order, Head(sorted), x) <= 0
         THEN <<Head(sorted)>> \o InsertSorted(order, x, Tail(sorted))
         ELSE <<x>> \o sorted

RECURSIVE StableSort(_, _)
\* the sort of a list under a consistent comparator: stable, hence unique
StableSort(order, games) ==
    IF games = <<>> THEN <<>>
    ELSE InsertSorted(order, games[Len(games)],
                      StableSort(order, SubSeq(games, 1, Len(games) - 1)))

\* the orders a list's elements can be put in
Reorderings(games) ==
    LET n == Len(games)
        bijections == {p \in [1 .. n -> 1 .. n] : \A i, j \in 1 .. n : p[i] = p[j] => i = j}
    IN  {[i \in 1 .. n |-> games[p[i]]] : p \in bijections}

\* Array.prototype.sort: the stable order when the comparator is consistent,
\* otherwise an implementation-defined order of the same elements
SortOutcomes(order, games) ==
    IF ConsistentComparator(order, games) THEN {StableSort(order, games)}
    ELSE Reorderings(games)

\* .slice(0, 3)
Slice(games) == SubSeq(games, 1, IF Len(games) < SliceEnd THEN Len(games) ELSE SliceEnd)

\* data.events || []
EventsOf(body) == IF body.hasEvents THEN body.events ELSE <<>>

\* the TeamSchedule values the resolver can pass to setTeamSchedule
Schedules(events, now) ==
    LET games == GamesOf(events)
        completedGames == SelectGames(games, now, "completed")
        upcomingGames == SelectGames(games, now, "upcoming")
    IN  {[lastGames |-> Slice(l), nextGames |-> Slice(n)] :
            l \in SortOutcomes("recent", completedGames),
            n \in SortOutcomes("upcoming", upcomingGames)}

(***************************************************************************)
(* What the two endpoints can answer.                                      *)
(***************************************************************************)
\* response.ok
Ok(status) == status >= 200 /\ status <= 299

FailureStatuses == {404, 500}

\* the team snapshot a competitor of the side carries
TeamOf(side) ==
    IF side = "home"
    THEN [displayName |-> "Buffalo Bills", abbreviation |-> "BUF", logo |-> "buf.png"]
    ELSE [displayName |-> "Miami Dolphins", abbreviation |-> "MIA", logo |-> "mia.png"]

\* a competitor of the side with its team and a score
Scored(side) == [homeAway |-> side, team |-> TeamOf(side), score |-> "21"]

\* a competitor of the side with its team and no score
Unscored(side) == [homeAway |-> side, team |-> TeamOf(side)]

\* event.competitions as sent for a game that was played
PlayedCompetitions == <<[competitors |-> <<Scored("home"), Scored("away")>>]>>

\* what the endpoint can send as event.competitions: no property at all, or
\* a list whose first element has both, one or no competitor of each side,
\* with or without team and score
CompetitionShapes ==
    {[present |-> FALSE]}
        \cup {[present |-> TRUE, competitions |-> c] :
                c \in {<<>>, <<[id |-> "401"]>>, <<[competitors |-> <<>>]>>, PlayedCompetitions}}
        \cup {[present |-> TRUE, competitions |-> <<[competitors |-> cs]>>] :
                cs \in {<<Scored("home")>>, <<Unscored("away")>>,
                        <<Unscored("away"), Unscored("home")>>,
                        <<Unscored("home"), Scored("away")>>,
                        <<[homeAway |-> "home", score |-> "21"],
                          [homeAway |-> "away",
                           team |-> [displayName |-> "", abbreviation |-> "MIA", logo |-> ""]]>>}}

\* the shape the interleaved model and the classification checks send
PlayedShapes == {[present |-> TRUE, competitions |-> PlayedCompetitions]}

\* what the endpoint can send for a list of k events: a date string, a
\* completion flag and competitions of one of the shapes each
EventChoices(k, shapes) == [1 .. k -> DateStrings \X CompletedFlags \X shapes]

\* the event list of a choice: event i carries id i
EventList(f) ==
    [i \in DOMAIN f |->
        IF f[i][3].present
        THEN [id |-> i, date |-> f[i][1], flag |-> f[i][2],
              competitions |-> f[i][3].competitions]
        ELSE [id |-> i, date |-> f[i][1], flag |-> f[i][2]]]

\* fetch() rejected: there is no response
NetworkFailure == [net |-> "rejected"]

\* a response with a non-success status
HttpFailure(status) == [net |-> "resolved", status |-> status]

\* a success status whose body response.json() cannot parse
JsonFailure == [net |-> "resolved", status |-> 200, json |-> "rejects"]

\* a success status with a parsed body
Parsed(body) == [net |-> "resolved", status |-> 200, json |-> "resolves", body |-> body]

FailedResponses == {NetworkFailure, JsonFailure} \cup {HttpFailure(s) : s \in FailureStatuses}

\* schedule responses without an event list: a failure, or a body with no
\* events property
ListlessResponses == FailedResponses \cup {Parsed([hasEvents |-> FALSE])}

\* a schedule response with an event list
WithEvents(events) == Parsed([hasEvents |-> TRUE, events |-> events])

TeamLists == UNION {[1 .. k -> {Team(id) : id \in TeamIds}] : k \in 0 .. 2}

\* bodies of the directory endpoint: sports -> leagues -> teams -> team, each
\* level present or missing
DirectoryBodies ==
    {[hasSports |-> FALSE], [hasSports |-> TRUE, sports |-> <<>>],
     [hasSports |-> TRUE, sports |-> <<[leagues |-> <<>>]>>],
     [hasSports |-> TRUE, sports |-> <<[leagues |-> <<[hasTeams |-> FALSE]>>]>>]}
        \cup {[hasSports |-> TRUE,
               sports |-> <<[leagues |-> <<[hasTeams |-> TRUE,
                                            teams |-> [i \in DOMAIN ts |-> [team |-> ts[i]]]]>>]>>] :
                 ts \in TeamLists}

DirectoryResponses == FailedResponses \cup {Parsed(b) : b \in DirectoryBodies}

\* an error message that leaves the status code out
HttpErrorMessageNoStatus(status) == [text |-> "HTTP error!", status |-> 0]

\* new Error(`HTTP error! status: ${response.status}`).message
HttpErrorMessage(status) == [text |-> "HTTP error! status: ", status |-> status]

\* the message of the TypeError a rejected fetch() throws
NetworkErrorMessage == [text |-> "Failed to fetch"]

\* the message of the SyntaxError a rejected response.json() throws
JsonErrorMessage == [text |-> "Unexpected token"]

\* the message of the TypeError reading a property of undefined throws
TypeErrorMessage == [text |-> "Cannot read properties of undefined"]

\* a parsed body without an events property thrown as an error too
ThrownByFetchNeedsEvents(resp) ==
    IF resp.net = "rejected" THEN NetworkErrorMessage
    ELSE IF ~Ok(resp.status) THEN HttpErrorMessage(resp.status)
    ELSE IF resp.json = "rejects" THEN JsonErrorMessage
    ELSE IF ~resp.body.hasEvents THEN TypeErrorMessage
    ELSE Null

\* what the awaits of a fetch throw, or Null: fetch(), the response.ok test,
\* response.json()
ThrownByFetch(resp) ==
    IF resp.net = "rejected" THEN NetworkErrorMessage
    ELSE IF ~Ok(resp.status) THEN HttpErrorMessage(resp.status)
    ELSE IF resp.json = "rejects" THEN JsonErrorMessage
    ELSE Null

\* what the forEach loop throws, or Null: event.competitions[0] of an event
\* without a competitions property
ThrownByEvents(events) ==
    IF \E i \in DOMAIN events : "competitions" \notin DOMAIN events[i]
    THEN TypeErrorMessage
    ELSE Null

\* what the try block of fetchTeamSchedule throws, or Null
ThrownByResolve(resp) ==
    IF ThrownByFetch(resp) # Null THEN ThrownByFetch(resp)
    ELSE ThrownByEvents(EventsOf(resp.body))

\* data.sports[0].leagues[0].teams is there to be mapped
HasTeamList(body) ==
    /\ body.hasSports
    /\ body.sports # <<>>
    /\ body.sports[1].leagues # <<>>
    /\ body.sports[1].leagues[1].hasTeams

\* data.sports[0].leagues[0].teams.map((teamObj) => teamObj.team)
TeamsData(body) ==
    LET wrappers == body.sports[1].leagues[1].teams
    IN  [i \in DOMAIN wrappers |-> wrappers[i].team]

\* what the try block of fetchTeams throws, or Null
ThrownByFetchTeams(resp) ==
    IF ThrownByFetch(resp) # Null THEN ThrownByFetch(resp)
    ELSE IF ~HasTeamList(resp.body) THEN TypeErrorMessage
    ELSE Null

(***************************************************************************)
(* The component.                                                          *)
(***************************************************************************)
NoneInflight == [id \in TeamIds |-> 0]

RECURSIVE SumOver(_, _)
SumOver(f, S) == IF S = {} THEN 0 ELSE LET x == CHOOSE y \in S : TRUE IN f[x] + SumOver(f, S \ {x})

\* fetchTeamSchedule calls that have not settled
Pending == SumOver(inflight, TeamIds)

\* {game.awayTeam.score || "0"} and {game.homeTeam.score || "0"}
ScoreText(side) == IF "score" \in DOMAIN side /\ side.score # "" THEN side.score ELSE "0"

\* the score texts of the Recent Games column: nothing unless the modal is
\* open and shows a schedule
RecentScores ==
    IF selectedTeam # Null /\ teamSchedule # Null
    THEN [i \in DOMAIN teamSchedule.lastGames |->
             [away |-> ScoreText(teamSchedule.lastGames[i].awayTeam),
              home |-> ScoreText(teamSchedule.lastGames[i].homeTeam)]]
    ELSE <<>>

\* the render that follows the state updates of a handler or continuation:
\* the modal's score texts are those of the new state
Commit == shownScores' = RecentScores'

Init ==
    /\ teams = <<>>
    /\ loading = TRUE
    /\ error = Null
    /\ selectedTeam = Null
    /\ teamSchedule = Null
    /\ scheduleLoading = FALSE
    /\ scheduleError = Null
    /\ teamsFetch = "pending"
    /\ inflight = NoneInflight
    /\ scheduleFrom = Null
    /\ lastResponse = Null
    /\ lastDirectory = Null
    /\ shownScores = <<>>

\* fetchTeams with setLoading(false) at the end of the try block, not in finally
FetchTeamsSettleNoFinally(resp) ==
    /\ teamsFetch = "pending"
    /\ teamsFetch' = "settled"
    /\ IF ThrownByFetchTeams(resp) = Null
       THEN /\ teams' = TeamsData(resp.body)
            /\ loading' = FALSE
            /\ UNCHANGED error
       ELSE /\ error' = ThrownByFetchTeams(resp)
            /\ UNCHANGED <<teams, loading>>
    /\ lastDirectory' = resp
    /\ UNCHANGED <<selectedTeam, teamSchedule, scheduleLoading, scheduleError,
                   inflight, scheduleFrom, lastResponse>>
    /\ Commit

\* fetchTeams with a catch block that logs the error and does not setError
FetchTeamsSettleSwallow(resp) ==
    /\ teamsFetch = "pending"
    /\ teamsFetch' = "settled"
    /\ IF ThrownByFetchTeams(resp) = Null
       THEN teams' = TeamsData(resp.body)
       ELSE UNCHANGED teams
    /\ loading' = FALSE
    /\ lastDirectory' = resp
    /\ UNCHANGED <<error, selectedTeam, teamSchedule, scheduleLoading, scheduleError,
                   inflight, scheduleFrom, lastResponse>>
    /\ Commit

\* the continuation of fetchTeams once its fetch has settled with resp
FetchTeamsSettle(resp) ==
    /\ teamsFetch = "pending"
    /\ teamsFetch' = "settled"
    /\ IF ThrownByFetchTeams(resp) = Null
       THEN /\ teams' = TeamsData(resp.body)
            /\ UNCHANGED error
       ELSE /\ error' = ThrownByFetchTeams(resp)
            /\ UNCHANGED teams
    /\ loading' = FALSE
    /\ lastDirectory' = resp
    /\ UNCHANGED <<selectedTeam, teamSchedule, scheduleLoading, scheduleError,
                   inflight, scheduleFrom, lastResponse>>
    /\ Commit

\* the table row of a team is on screen and can be clicked: the table replaces
\* the loading and error screens, and the modal overlay covers it
RowClickable(team) ==
    /\ ~loading
    /\ error = Null
    /\ \E i \in DOMAIN teams : teams[i] = team
    /\ selectedTeam = Null

\* handleTeamClick(team), with fetchTeamSchedule(team.id) up to its await
HandleTeamClick(team) ==
    /\ RowClickable(team)
    /\ Pending < MaxInflight
    /\ selectedTeam' = team
    /\ teamSchedule' = Null
    /\ scheduleLoading' = TRUE
    /\ scheduleError' = Null
    /\ inflight' = [inflight EXCEPT ![team.id] = @ + 1]
    /\ scheduleFrom' = Null
    /\ lastResponse' = Null
    /\ UNCHANGED <<teams, loading, error, teamsFetch, lastDirectory>>
    /\ Commit

\* closeModal(), the handler of the modal's close button
CloseModal ==
    /\ selectedTeam # Null
    /\ selectedTeam' = Null
    /\ teamSchedule' = Null
    /\ scheduleError' = Null
    /\ scheduleFrom' = Null
    /\ UNCHANGED <<teams, loading, error, scheduleLoading, teamsFetch, inflight,
                   lastResponse, lastDirectory>>
    /\ Commit

\* the catch block calling setError, the directory's error, in place of
\* setScheduleError
FetchTeamScheduleSettleSetsError(teamId, resp, now) ==
    /\ inflight[teamId] > 0
    /\ inflight' = [inflight EXCEPT ![teamId] = @ - 1]
    /\ IF ThrownByResolve(resp) = Null
       THEN /\ \E schedule \in Schedules(EventsOf(resp.body), now) :
                   teamSchedule' = schedule
            /\ scheduleFrom' = teamId
            /\ lastResponse' = [teamId |-> teamId, response |-> resp, now |-> now]
            /\ UNCHANGED error
       ELSE /\ error' = ThrownByResolve(resp)
            /\ lastResponse' = [teamId |-> teamId, response |-> resp]
            /\ UNCHANGED <<teamSchedule, scheduleFrom>>
    /\ scheduleLoading' = FALSE
    /\ UNCHANGED <<teams, loading, scheduleError, selectedTeam, teamsFetch, lastDirectory>>
    /\ Commit

\* the continuation of fetchTeamSchedule(teamId) once its fetch has settled
\* with resp, the clock reading now
FetchTeamScheduleSettle(teamId, resp, now) ==
    /\ inflight[teamId] > 0
    /\ inflight' = [inflight EXCEPT ![teamId] = @ - 1]
    /\ IF ThrownByResolve(resp) = Null
       THEN /\ \E schedule \in Schedules(EventsOf(resp.body), now) :
                   teamSchedule' = schedule
            /\ scheduleFrom' = teamId
            /\ lastResponse' = [teamId |-> teamId, response |-> resp, now |-> now]
            /\ UNCHANGED scheduleError
       ELSE /\ scheduleError' = ThrownByResolve(resp)
            /\ lastResponse' = [teamId |-> teamId, response |-> resp]
            /\ UNCHANGED <<teamSchedule, scheduleFrom>>
    /\ scheduleLoading' = FALSE
    /\ UNCHANGED <<teams, loading, error, selectedTeam, teamsFetch, lastDirectory>>
    /\ Commit

\* a pending fetchTeamSchedule call settles, with any response whose event
\* list has at most maxLen events, their competitions of the shapes given
SomeFetchSettles(maxLen, shapes) ==
    \E teamId \in {id \in TeamIds : inflight[id] > 0}, now \in ClockTimes :
        \/ \E resp \in ListlessResponses : FetchTeamScheduleSettle(teamId, resp, now)
        \/ \E k \in 0 .. maxLen : \E f \in EventChoices(k, shapes) :
               FetchTeamScheduleSettle(teamId, WithEvents(EventList(f)), now)

\* the component under any interleaving of its handlers and fetch completions,
\* a schedule response carrying at most one event
Next ==
    \/ \E resp \in DirectoryResponses : FetchTeamsSettle(resp)
    \/ \E team \in {Team(id) : id \in TeamIds} : HandleTeamClick(team)
    \/ CloseModal
    \/ SomeFetchSettles(1, PlayedShapes)

Spec == Init /\ [][Next]_vars

\* the directory has loaded one team and no team is selected
InitResolver ==
    /\ teams = <<Team("1")>>
    /\ loading = FALSE
    /\ error = Null
    /\ selectedTeam = Null
    /\ teamSchedule = Null
    /\ scheduleLoading = FALSE
    /\ scheduleError = Null
    /\ teamsFetch = "settled"
    /\ inflight = NoneInflight
    /\ scheduleFrom = Null
    /\ lastResponse = Null
    /\ lastDirectory = Parsed([hasSports |-> TRUE,
                               sports |-> <<[leagues |-> <<[hasTeams |-> TRUE,
                                                            teams |-> <<[team |-> Team("1")]>>]>>]>>])
    /\ shownScores = <<>>

\* the resolver used one fetch at a time, over every event list of the bounds
NextResolver ==
    \/ \E team \in {Team(id) : id \in TeamIds} : Pending = 0 /\ HandleTeamClick(team)
    \/ CloseModal
    \/ SomeFetchSettles(MaxEvents, PlayedShapes)

ResolverSpec == InitResolver /\ [][NextResolver]_vars

\* the resolver used one fetch at a time, over every shape of competitions in
\* event lists of up to two events
NextSnapshot ==
    \/ \E team \in {Team(id) : id \in TeamIds} : Pending = 0 /\ HandleTeamClick(team)
    \/ CloseModal
    \/ SomeFetchSettles(2, CompetitionShapes)

SnapshotSpec == InitResolver /\ [][NextSnapshot]_vars

(***************************************************************************)
(* The schedule resolver: classification, order and cap.                   *)
(***************************************************************************)
\* a schedule is on display and the fetch that settled last succeeded
Resolved ==
    /\ teamSchedule # Null
    /\ lastResponse # Null
    /\ lastResponse.response.net = "resolved"
    /\ lastResponse.response.status = 200
    /\ lastResponse.response.json = "resolves"

\* the event list that fetch read
ResolvedEvents == EventsOf(lastResponse.response.body)

\* the ids of the games of a list
IdsOf(games) == {games[i].id : i \in DOMAIN games}

\* the event was sent with a parsable date later than the clock read
InFuture(event) == event.date # 0 /\ event.date > lastResponse.now

\* C1: an event whose completion flag is true never appears in nextGames, even
\* with a date in the future, and no Game is in both lastGames and nextGames.
C1_CompletedNeverUpcoming ==
    Resolved =>
        /\ \A i \in DOMAIN ResolvedEvents :
               ResolvedEvents[i].flag = "true"
                   => ResolvedEvents[i].id \notin IdsOf(teamSchedule.nextGames)
        /\ \A i \in DOMAIN teamSchedule.lastGames, j \in DOMAIN teamSchedule.nextGames :
               teamSchedule.lastGames[i] # teamSchedule.nextGames[j]
        /\ IdsOf(teamSchedule.lastGames) \cap IdsOf(teamSchedule.nextGames) = {}

\* a completed event dated in the future was resolved into lastGames, next to
\* an upcoming game
C1_Witness ==
    /\ Resolved
    /\ teamSchedule.nextGames # <<>>
    /\ \E i \in DOMAIN ResolvedEvents :
           /\ ResolvedEvents[i].flag = "true"
           /\ InFuture(ResolvedEvents[i])
           /\ ResolvedEvents[i].id \in IdsOf(teamSchedule.lastGames)

\* C2: an event whose completion flag is false or absent and whose date is
\* strictly later than the clock read is never in lastGames, and is in
\* nextGames unless nextGames is full.
C2_FutureIsUpcoming ==
    Resolved =>
        \A i \in DOMAIN ResolvedEvents :
            (ResolvedEvents[i].flag \in {"false", "absent"} /\ InFuture(ResolvedEvents[i]))
                => /\ ResolvedEvents[i].id \notin IdsOf(teamSchedule.lastGames)
                   /\ \/ ResolvedEvents[i].id \in IdsOf(teamSchedule.nextGames)
                      \/ Len(teamSchedule.nextGames) = SliceEnd

\* an event with no completion flag and a future date was resolved into
\* nextGames
C2_Witness ==
    /\ Resolved
    /\ \E i \in DOMAIN ResolvedEvents :
           /\ ResolvedEvents[i].flag = "absent"
           /\ InFuture(ResolvedEvents[i])
           /\ ResolvedEvents[i].id \in IdsOf(teamSchedule.nextGames)

\* C3: an event whose completion flag is false or absent and whose date is
\* not strictly later than the clock read (equal, earlier or unparsable) is in
\* neither list, and the resolution reports no error.
C3_NotFutureIsDropped ==
    Resolved =>
        \A i \in DOMAIN ResolvedEvents :
            (ResolvedEvents[i].flag \in {"false", "absent"} /\ ~InFuture(ResolvedEvents[i]))
                => /\ ResolvedEvents[i].id \notin IdsOf(teamSchedule.lastGames)
                   /\ ResolvedEvents[i].id \notin IdsOf(teamSchedule.nextGames)
                   /\ scheduleError = Null

\* one resolution dropped an event dated at the clock reading, an earlier one
\* and one with an unparsable date
C3_Witness ==
    /\ Resolved
    /\ \A d \in {0, lastResponse.now} \cup {t \in DateStrings : t = lastResponse.now - 1} :
           \E i \in DOMAIN ResolvedEvents :
               /\ ResolvedEvents[i].flag # "true"
               /\ ResolvedEvents[i].date = d
    /\ lastResponse.now > 1
    /\ teamSchedule.lastGames # <<>>

\* no game of the list precedes a game with a later parsable date
MostRecentFirst(games) ==
    \A i, j \in DOMAIN games :
        (i < j /\ games[i].date # 0 /\ games[j].date # 0) => games[i].date >= games[j].date

\* no game of the list precedes a game with an earlier parsable date
SoonestFirst(games) ==
    \A i, j \in DOMAIN games :
        (i < j /\ games[i].date # 0 /\ games[j].date # 0) => games[i].date <= games[j].date

\* C4: in every stored TeamSchedule lastGames is ordered by timestamp
\* non-increasing, nextGames non-decreasing, and both have at most 3 games,
\* for any input event list.
C4_OrderedAndCapped ==
    Resolved =>
        /\ MostRecentFirst(teamSchedule.lastGames)
        /\ SoonestFirst(teamSchedule.nextGames)
        /\ Len(teamSchedule.lastGames) <= 3
        /\ Len(teamSchedule.nextGames) <= 3

\* the events of the list read that are candidates for lastGames
CompletedEvents == {i \in DOMAIN ResolvedEvents : ResolvedEvents[i].flag = "true"}

\* the events of the list read that are candidates for nextGames
UpcomingEvents ==
    {i \in DOMAIN ResolvedEvents :
        ResolvedEvents[i].flag # "true" /\ InFuture(ResolvedEvents[i])}

\* the list holds min(3, n) distinct candidates
KeepsFirstThree(games, candidates) ==
    /\ Len(games) = (IF Cardinality(candidates) < 3 THEN Cardinality(candidates) ELSE 3)
    /\ Cardinality(IdsOf(games)) = Len(games)
    /\ IdsOf(games) \subseteq {ResolvedEvents[i].id : i \in candidates}

\* C5: lastGames is the first min(3, n) completed games in descending
\* timestamp order, every completed game left out being no later than every
\* one kept; nextGames is the first min(3, m) upcoming candidates in ascending
\* order, every candidate left out being no earlier than every one kept.
C5_KeepsExtremes ==
    Resolved =>
        /\ KeepsFirstThree(teamSchedule.lastGames, CompletedEvents)
        /\ MostRecentFirst(teamSchedule.lastGames)
        /\ \A i \in CompletedEvents, k \in DOMAIN teamSchedule.lastGames :
               (/\ ResolvedEvents[i].id \notin IdsOf(teamSchedule.lastGames)
                /\ ResolvedEvents[i].date # 0
                /\ teamSchedule.lastGames[k].date # 0)
                   => ResolvedEvents[i].date <= teamSchedule.lastGames[k].date
        /\ KeepsFirstThree(teamSchedule.nextGames, UpcomingEvents)
        /\ SoonestFirst(teamSchedule.nextGames)
        /\ \A i \in UpcomingEvents, k \in DOMAIN teamSchedule.nextGames :
               ResolvedEvents[i].id \notin IdsOf(teamSchedule.nextGames)
                   => ResolvedEvents[i].date >= teamSchedule.nextGames[k].date

(***************************************************************************)
(* Failures, the directory loader and stale responses.                     *)
(***************************************************************************)
\* this step is the continuation of a fetchTeamSchedule call
ScheduleFetchSettles == \E id \in TeamIds : inflight'[id] < inflight[id]

\* C6: a fetchTeamSchedule call whose response has a non-success HTTP status
\* sets scheduleError to a message carrying the status code and does not set
\* teamSchedule.
C6_HttpFailureSetsErrorOnly ==
    [][(/\ ScheduleFetchSettles
        /\ lastResponse'.response.net = "resolved"
        /\ lastResponse'.response.status \notin 200 .. 299)
           => /\ scheduleError' = [text |-> "HTTP error! status: ",
                                   status |-> lastResponse'.response.status]
              /\ teamSchedule' = teamSchedule]_vars

\* a fetch answered 404 and left the 404 message and no schedule
C6_Witness ==
    /\ lastResponse # Null
    /\ lastResponse.response.net = "resolved"
    /\ lastResponse.response.status = 404
    /\ scheduleError # Null
    /\ scheduleError.status = 404
    /\ teamSchedule = Null
    /\ selectedTeam # Null

\* the fetch that settles in this step read a parsed body whose event list is
\* empty or absent
SettlesWithoutEvents ==
    /\ ScheduleFetchSettles
    /\ lastResponse'.response.net = "resolved"
    /\ lastResponse'.response.status = 200
    /\ lastResponse'.response.json = "resolves"
    /\ \/ ~lastResponse'.response.body.hasEvents
       \/ lastResponse'.response.body.events = <<>>

\* C7: a successful schedule response whose event list is empty or absent
\* yields a TeamSchedule with lastGames and nextGames both empty, and
\* scheduleError stays null.
C7_NoEventsIsEmptySchedule ==
    [][SettlesWithoutEvents
           => /\ teamSchedule' = [lastGames |-> <<>>, nextGames |-> <<>>]
              /\ scheduleError' = Null]_vars

\* a body without an events property was resolved into the empty schedule
C7_Witness ==
    /\ Resolved
    /\ ~lastResponse.response.body.hasEvents
    /\ teamSchedule = [lastGames |-> <<>>, nextGames |-> <<>>]
    /\ scheduleError = Null

\* this step is the continuation of fetchTeams
TeamsFetchSettles == teamsFetch = "pending" /\ teamsFetch' = "settled"

\* C8: the directory loader turns loading from true to false exactly once,
\* when its single fetch settles, whatever the outcome; loading never returns
\* to true.
C8_LoadingClearedOnce ==
    [][/\ TeamsFetchSettles => (loading /\ ~loading')
       /\ loading' # loading => TeamsFetchSettles
       /\ teamsFetch = "settled" => teamsFetch' = "settled"
       /\ ~loading => ~loading']_vars

\* the loader's response.json() threw and loading is false
C8_Witness ==
    /\ teamsFetch = "settled"
    /\ lastDirectory.net = "resolved"
    /\ lastDirectory.status = 200
    /\ lastDirectory.json = "rejects"
    /\ error # Null
    /\ ~loading

\* the directory response is a failure: no response, a non-success status, an
\* unparsable body or a body without sports[0].leagues[0].teams
DirectoryFailed ==
    \/ lastDirectory.net = "rejected"
    \/ lastDirectory.status \notin 200 .. 299
    \/ lastDirectory.json = "rejects"
    \/ ~lastDirectory.body.hasSports
    \/ Len(lastDirectory.body.sports) = 0
    \/ Len(lastDirectory.body.sports[1].leagues) = 0
    \/ ~lastDirectory.body.sports[1].leagues[1].hasTeams

\* C9: the directory loader's outcome is all-or-nothing: on a failure error
\* is a message and teams stays empty, on success teams is the extracted
\* list and error stays null; never a message and a list together.
C9_DirectoryAllOrNothing ==
    /\ teamsFetch = "pending" => (error = Null /\ teams = <<>>)
    /\ teamsFetch = "settled" =>
           IF DirectoryFailed
           THEN error # Null /\ teams = <<>>
           ELSE /\ error = Null
                /\ Len(teams) = Len(lastDirectory.body.sports[1].leagues[1].teams)
                /\ \A i \in DOMAIN teams :
                       teams[i] = lastDirectory.body.sports[1].leagues[1].teams[i].team
    /\ ~(error # Null /\ teams # <<>>)

\* a success status whose body has no leagues left an error and no teams
C9_Witness ==
    /\ teamsFetch = "settled"
    /\ lastDirectory.net = "resolved"
    /\ lastDirectory.status = 200
    /\ lastDirectory.json = "resolves"
    /\ lastDirectory.body.hasSports
    /\ lastDirectory.body.sports # <<>>
    /\ lastDirectory.body.sports[1].leagues = <<>>
    /\ error # Null
    /\ teams = <<>>

\* C10: a schedule result that arrives after the selection has changed is
\* discarded: a non-null teamSchedule was produced by the fetch started for
\* the currently selected team.
C10_ScheduleOfSelectedTeam ==
    teamSchedule # Null => (selectedTeam # Null /\ scheduleFrom = selectedTeam.id)

(***************************************************************************)
(* Fetches in flight and what the modal shows.                             *)
(***************************************************************************)
\* C11: at most one schedule fetch is in flight at any time: fetchTeamSchedule
\* is never started for a team while a call for a different team has not yet
\* settled.
C11_NoFetchStartedWhileAnotherPending ==
    [][\A id \in TeamIds :
           inflight'[id] > inflight[id]
               => \A other \in TeamIds \ {id} : inflight[other] = 0]_vars

\* C12: a schedule resolution, succeeding or failing, leaves the directory
\* state alone: handleTeamClick, fetchTeamSchedule and closeModal do not
\* modify teams, loading or error.
C12_DirectoryStateUntouched ==
    [][~TeamsFetchSettles => (teams' = teams /\ loading' = loading /\ error' = error)]_vars

\* a schedule fetch failed and the loaded team table is still there
C12_Witness ==
    /\ scheduleError # Null
    /\ selectedTeam # Null
    /\ lastResponse # Null
    /\ teams # <<>>
    /\ ~loading
    /\ error = Null

(***************************************************************************)
(* Team snapshots and scores.                                              *)
(***************************************************************************)
\* the event read has no participant tagged with the side
LacksSide(event, side) ==
    \/ event.competitions = <<>>
    \/ "competitors" \notin DOMAIN event.competitions[1]
    \/ \A i \in DOMAIN event.competitions[1].competitors :
           event.competitions[1].competitors[i].homeAway # side

\* the games of the schedule on display
ShownGames ==
    {teamSchedule.lastGames[i] : i \in DOMAIN teamSchedule.lastGames}
        \cup {teamSchedule.nextGames[i] : i \in DOMAIN teamSchedule.nextGames}

\* the side of a game
SideRecord(game, side) == IF side = "home" THEN game.homeTeam ELSE game.awayTeam

\* the most recent fetch read a parsed event list in which every event has a
\* competitions property and some event lacks a side, and its team is still
\* selected
ReadEventLackingSide ==
    /\ selectedTeam # Null
    /\ lastResponse # Null
    /\ lastResponse.response.net = "resolved"
    /\ lastResponse.response.status = 200
    /\ lastResponse.response.json = "resolves"
    /\ \A i \in DOMAIN ResolvedEvents : "competitions" \in DOMAIN ResolvedEvents[i]
    /\ \E i \in DOMAIN ResolvedEvents, side \in {"home", "away"} :
           LacksSide(ResolvedEvents[i], side)

SideWithoutScore(event, side) ==
    /\ ~LacksSide(event, side)
    /\ LET competitors == event.competitions[1].competitors
           first == CHOOSE i \in DOMAIN competitors :
                        /\ competitors[i].homeAway = side
                        /\ \A j \in DOMAIN competitors :
                               competitors[j].homeAway = side => i <= j
       IN  "score" \notin DOMAIN competitors[first]

\* side.score || "0" as shown in the Recent Games column for game i
ShownScore(i, side) == IF side = "home" THEN shownScores[i].home ELSE shownScores[i].away

\* C14: a participant present without a score gives a Game whose score for that
\* side is absent, not "0"; the Recent Games column shows "0" for it while the
\* Game in teamSchedule still has no score.
C14_AbsentScoreStaysAbsent ==
    Resolved =>
        /\ \A game \in ShownGames, side \in {"home", "away"} :
               SideWithoutScore(ResolvedEvents[game.id], side)
                   => "score" \notin DOMAIN SideRecord(game, side)
        /\ selectedTeam # Null =>
               /\ DOMAIN shownScores = DOMAIN teamSchedule.lastGames
               /\ \A i \in DOMAIN teamSchedule.lastGames, side \in {"home", "away"} :
                      SideWithoutScore(ResolvedEvents[teamSchedule.lastGames[i].id], side)
                          => /\ ShownScore(i, side) = "0"
                             /\ "score" \notin DOMAIN SideRecord(teamSchedule.lastGames[i], side)

\* a recent game whose away participant has no score is shown with "0" and
\* stored without a score, next to a home score of "21"
C14_Witness ==
    /\ Resolved
    /\ selectedTeam # Null
    /\ \E i \in DOMAIN teamSchedule.lastGames :
           /\ SideWithoutScore(ResolvedEvents[teamSchedule.lastGames[i].id], "away")
           /\ shownScores[i].away = "0"
           /\ "score" \notin DOMAIN teamSchedule.lastGames[i].awayTeam
           /\ shownScores[i].home = "21"

\* C15: whenever no team is selected, teamSchedule is null and scheduleError is
\* null, also when closeModal ran with a fetch in flight that settles later.
C15_ClosedModalHoldsNothing ==
    selectedTeam = Null => (teamSchedule = Null /\ scheduleError = Null)

\* C16: scheduleLoading is true exactly while some fetchTeamSchedule call has
\* started and not settled.
C16_LoadingIffFetchInFlight == scheduleLoading <=> Pending > 0

\* C17: teamSchedule and scheduleError are never both non-null.
C17_ScheduleOrErrorNotBoth == ~(teamSchedule # Null /\ scheduleError # Null)
====
